---- MODULE Spec2Model ----
(***************************************************************************)
(* Job execution engine of queue-wizard (src/src/lib/worker.ts): the       *)
(* atomic claim statement, the poll tick, the executor and its two store   *)
(* writes, and the start/stop of the interval timer.  Jobs enter the       *)
(* store through POST /jobs.                                               *)
(*                                                                         *)
(* Every await of the TypeScript code is a point where the model can       *)
(* interleave other steps: a tick is suspended in `await claimNextJob()`   *)
(* (the statement has not run yet: counted in "claiming"; it has committed *)
(* but the continuation has not run yet: its row is in "resolved"), an     *)
(* execution is suspended in `await fetch(...)` (pc "fetch"), in the await *)
(* of the failure write it issued because parseHeaders threw (pc "catch"), *)
(* or in the await of its store write (the write has committed or          *)
(* rejected, the `finally` has not run yet: pc "finally").  The routes of  *)
(* routes/jobs (POST /jobs, GET /jobs, GET /jobs/:id) read and fill the    *)
(* same store.                                                             *)
(***************************************************************************)
EXTENDS Integers, Sequences, FiniteSets, Bags, TLC

\* ---- program constants (worker.ts) ----
maxConcurrent == 5
maxAttempts == 3
workerId == "main"

\* ---- bounds of the model ----
\* MaxJobs: rows the Job table can hold (more than maxConcurrent).
\* BacklogJobs: POST /jobs requests in the specifications with a backlog.
\* Submissions: POST /jobs requests
\* the clients send in the default specification.  MaxTicks: activations of
\* runTick that can be suspended at once in one process.  FaultJobs: POST
\* /jobs requests in the specifications with failing requests and statements.
\* MaxClaimed: the largest attempts value of the job handed to executeJob in
\* the specification of one execution.
MaxJobs == 6
BacklogJobs == 3
Submissions == 2
MaxTicks == 2
FaultJobs == 1
MaxClaimed == 4

JobIds == 1..MaxJobs
\* Processes that can run worker.ts against the same database file.
Workers == {workerId, "peer"}
Priorities == {1, 5}
\* The two routes of the e2e target server.
Urls == {"/success", "/fail"}
\* The accounts that submit jobs.
Users == {"alice", "bob"}
\* The headers column holds the JSON text of an object; the model keeps, per
\* member, its name and the JSON type of its value.  createJobSchema accepts
\* any text that JSON.parse accepts, so a member need not be a string.
WellFormed == <<>>
HeaderTexts == {WellFormed, <<[name |-> "x-retries", json |-> "number"]>>}
\* Nullable text columns hold a sequence of tokens; null is the empty one.
Null == <<>>
\* Header members a client supplies, in the letter cases clients use, and the
\* header texts made of them (the members in this order).
SuppliedMembers ==
    << [name |-> "content-type", json |-> "string", value |-> "text/plain"],
       [name |-> "Content-Type", json |-> "string", value |-> "text/plain"],
       [name |-> "accept", json |-> "string", value |-> "text/html"],
       [name |-> "Accept", json |-> "string", value |-> "text/html"],
       [name |-> "x-id", json |-> "string", value |-> "7"] >>
SuppliedTexts ==
    {SelectSeq(SuppliedMembers, LAMBDA m : m.name \in S) :
        S \in SUBSET {SuppliedMembers[i].name : i \in DOMAIN SuppliedMembers}}
\* The body column: null, or the JSON text of an object.
Bodies == {Null, <<"{", " ", "}">>}
NoRow == [id |-> 0, attempts |-> 0]
\* What a tick holds when its claimNextJob call rejected instead.
Rejected == [id |-> 0, attempts |-> -1]

VARIABLES
    instances,      \* the processes running the engine
    submissions,    \* POST /jobs requests the clients have still to send
    jobs,           \* the Job table: id -> row ("absent" before its INSERT)
    currentWorkers, \* per process: let currentWorkers
    poller,         \* per process: let poller (TRUE = an interval timer is set)
    isTickRunning,  \* per process: let isTickRunning
    ticks,          \* per process: the activations of runTick suspended in
                    \* claimNextJob: how many wait for the statement to run,
                    \* and the rows returned to those whose continuation has
                    \* not run yet (a bag: activations are interchangeable)
    execs,          \* the activations of executeJob that have not returned
    claimCount,     \* history: id -> number of times claimNextJob returned the job
    failCount,      \* history: id -> number of executions of the job that failed
    history         \* history: id -> the sequence of values its status has had

vars == <<instances, submissions, jobs, currentWorkers, poller, isTickRunning, ticks, execs,
          claimCount, failCount, history>>

AbsentJob ==
    [status |-> "absent", attempts |-> 0, result |-> Null, errorMessage |-> Null,
     priority |-> 0, createdAt |-> 0, url |-> "", headers |-> WellFormed, body |-> Null,
     userId |-> ""]

NoTicks == [claiming |-> 0, resolved |-> EmptyBag]

Existing == {j \in JobIds : jobs[j].status # "absent"}

Max(a, b) == IF a > b THEN a ELSE b

\* ---- the external target (e2e/api.test.ts, externalServer) ----
\* /success answers 200 and /fail answers 500, both with a JSON body written
\* by JSON.stringify (no white space between the tokens).
Respond(url) ==
    IF url = "/success"
    THEN [ok |-> TRUE, status |-> "200", contentType |-> "application/json",
          text |-> <<"{", "ok", ":", "true", "}">>]
    ELSE [ok |-> FALSE, status |-> "500", contentType |-> "application/json",
          text |-> <<"{", "ok", ":", "false", "}">>]

\* JSON.stringify(JSON.parse(text)): the tokens without the white space.
Reserialize(text) == SelectSeq(text, LAMBDA t : t # " ")

\* let result = responseText; re-serialized when the content type is JSON
StoredResult(resp) ==
    IF resp.contentType = "application/json" THEN Reserialize(resp.text) ELSE resp.text

\* `Request failed with status ${response.status}: ${responseText}`
FailureMessage(resp) == <<"Request failed with status ", resp.status, ": ">> \o resp.text

\* (a parseHeaders that accepts every JSON text)
ParseHeadersLenient(h) == [ok |-> TRUE, message |-> Null]

\* headersSchema.parse(JSON.parse(headersJson)): z.record(z.string(),
\* z.string()) throws a ZodError unless every member is a string.
ParseHeaders(h) ==
    IF \A i \in DOMAIN h : h[i].json = "string"
    THEN [ok |-> TRUE, message |-> Null]
    ELSE [ok |-> FALSE, message |-> <<"invalid_type", "expected string">>]

\* key.toLowerCase(), for the header names of the model.
Lower(name) ==
    CASE name \in {"content-type", "Content-Type"} -> "content-type"
      [] name \in {"accept", "Accept"} -> "accept"
      [] OTHER -> name

\* The object parseHeaders returns: one property per member of the text.
ParsedHeaders(h) ==
    {[name |-> h[i].name, value |-> h[i].value] :
        i \in {k \in DOMAIN h : h[k].json = "string"}}

\* parseBody: undefined for a null (or empty) column, else the JSON text
\* serialized again.
ParseBody(b) == IF b = Null THEN Null ELSE Reserialize(b)

\* const headers = {...rawHeaders}; with a body: content-type defaults to
\* application/json unless a key equals it ignoring case, and
\* headers["accept"] = headers["accept"] ?? "application/json".
BuildHeaders(rawHeaders, body) ==
    LET hasContentType == \E m \in rawHeaders : Lower(m.name) = "content-type"
        typed == IF body # Null /\ ~hasContentType
                 THEN rawHeaders \cup
                          {[name |-> "content-type", value |-> "application/json"]}
                 ELSE rawHeaders
    IN IF body # Null /\ ~(\E m \in typed : m.name = "accept")
       THEN typed \cup {[name |-> "accept", value |-> "application/json"]}
       ELSE typed

\* The headers option of the fetch call of an execution of this row (none
\* when parseHeaders throws).
RequestHeaders(row) ==
    IF ParseHeaders(row.headers).ok
    THEN BuildHeaders(ParsedHeaders(row.headers), ParseBody(row.body))
    ELSE {}

\* What fetch rejects with when no response arrives: a network error, or the
\* abort of the request after requestTimeoutMs.
TransportErrors == {<<"fetch failed">>, <<"This operation was aborted">>}

\* What prisma.job.update rejects with when the write fails.
WriteError == <<"PrismaClientKnownRequestError">>

\* (an insert whose attempts column does not start at 0)
CreateJobAttempted(p, u, h, owner) ==
    /\ submissions > 0
    /\ Cardinality(Existing) < MaxJobs
    /\ LET j == Cardinality(Existing) + 1 IN
       /\ jobs' = [jobs EXCEPT ![j] =
              [status |-> "pending", attempts |-> 1, result |-> Null,
               errorMessage |-> Null, priority |-> p, createdAt |-> j, url |-> u,
               headers |-> h, body |-> Null, userId |-> owner]]
       /\ history' = [history EXCEPT ![j] = <<"pending">>]
    /\ submissions' = submissions - 1
    /\ UNCHANGED <<instances, currentWorkers, poller, isTickRunning, ticks, execs,
                   claimCount, failCount>>

\* ---- POST /jobs ----
\* prisma.job.create with the column defaults: status pending, attempts 0,
\* result and errorMessage null, createdAt now().  Rows are numbered in
\* insertion order and createdAt advances with every insert.
CreateJob(p, u, h, owner) ==
    /\ submissions > 0
    /\ Cardinality(Existing) < MaxJobs
    /\ LET j == Cardinality(Existing) + 1 IN
       /\ jobs' = [jobs EXCEPT ![j] =
              [status |-> "pending", attempts |-> 0, result |-> Null,
               errorMessage |-> Null, priority |-> p, createdAt |-> j, url |-> u,
               headers |-> h, body |-> Null, userId |-> owner]]
       /\ history' = [history EXCEPT ![j] = <<"pending">>]
    /\ submissions' = submissions - 1
    /\ UNCHANGED <<instances, currentWorkers, poller, isTickRunning, ticks, execs,
                   claimCount, failCount>>

\* ---- GET /jobs and GET /jobs/:id ----
\* jobQuerySchema.status: a status, or undefined (NoFilter).
NoFilter == ""
StatusFilters == {NoFilter, "pending", "processing", "completed", "failed"}

\* orderBy: [{priority: "asc"}, {createdAt: "desc"}]
ListedBefore(a, b) ==
    \/ jobs[a].priority < jobs[b].priority
    \/ /\ jobs[a].priority = jobs[b].priority
       /\ jobs[a].createdAt > jobs[b].createdAt

\* where: {userId: req.userId, status?: query.status}
ListWhere(user, filter) ==
    {j \in Existing :
        /\ jobs[j].userId = user
        /\ filter # NoFilter => jobs[j].status = filter}

\* GET /jobs: the ids of the rows of the answer, in the order of the answer.
ListJobs(user, filter) ==
    LET found == ListWhere(user, filter)
        listed == CHOOSE s \in [1..Cardinality(found) -> found] :
                      \A i, k \in 1..Cardinality(found) :
                          i < k => ListedBefore(s[i], s[k])
    IN [status |-> 200, jobs |-> listed, count |-> Cardinality(found)]

\* NotFoundError("Job not found"), answered by the error handler
NotFound == [status |-> 404, message |-> "Job not found", job |-> AbsentJob]

\* (a lookup without the check of the owner)
GetJobAnyOwner(user, id) ==
    IF id \notin Existing
    THEN NotFound
    ELSE [status |-> 200, message |-> "", job |-> jobs[id]]

\* GET /jobs/:id: findUnique by id, then the check of the owner.
GetJob(user, id) ==
    IF id \notin Existing
    THEN NotFound
    ELSE IF jobs[id].userId # user
         THEN NotFound
         ELSE [status |-> 200, message |-> "", job |-> jobs[id]]

\* ---- claimNextJob ----
\* (a subquery that also selects rows a worker already holds)
PendingOrProcessing == {j \in JobIds : jobs[j].status \in {"pending", "processing"}}

\* WHERE status = 'pending'
Pending == {j \in JobIds : jobs[j].status = "pending"}

\* (the ordering of the GET /jobs listing: priority asc, createdAt desc)
OrderedBeforeNewestFirst(a, b) ==
    \/ jobs[a].priority < jobs[b].priority
    \/ /\ jobs[a].priority = jobs[b].priority
       /\ jobs[a].createdAt > jobs[b].createdAt

\* ORDER BY priority ASC, createdAt ASC
OrderedBefore(a, b) ==
    \/ jobs[a].priority < jobs[b].priority
    \/ /\ jobs[a].priority = jobs[b].priority
       /\ jobs[a].createdAt < jobs[b].createdAt

\* (a subquery without the WHERE clause)
FirstOfAnyStatus == {j \in Existing : \A k \in Existing : ~OrderedBefore(k, j)}

\* The rows LIMIT 1 can deliver: the first of the ordering; rows with equal
\* keys come in an order the statement does not fix.
FirstPending == {j \in Pending : \A k \in Pending : ~OrderedBefore(k, j)}

\* (a claim that takes the row without counting the attempt)
ClaimedRowNotCounted(row) == [row EXCEPT !.status = "processing"]

\* (a claim that counts the attempt but leaves the row pending)
ClaimedRowStillPending(row) == [row EXCEPT !.attempts = row.attempts + 1]

\* SET status = 'processing', attempts = attempts + 1
ClaimedRow(row) == [row EXCEPT !.status = "processing", !.attempts = row.attempts + 1]

\* The UPDATE ... WHERE id = (SELECT ...) RETURNING statement, one atomic
\* step of the database, run for one of w's suspended ticks, which receives
\* the row (or none).
TickClaim(w) ==
    /\ w \in instances
    /\ ticks[w].claiming > 0
    /\ IF FirstPending = {}
       THEN /\ ticks' = [ticks EXCEPT ![w] =
                   [claiming |-> @.claiming - 1,
                    resolved |-> @.resolved (+) SetToBag({NoRow})]]
            /\ UNCHANGED <<jobs, claimCount, history>>
       ELSE \E j \in FirstPending :
            /\ jobs' = [jobs EXCEPT ![j] = ClaimedRow(jobs[j])]
            /\ ticks' = [ticks EXCEPT ![w] =
                   [claiming |-> @.claiming - 1,
                    resolved |-> @.resolved (+)
                        SetToBag({[id |-> j, attempts |-> ClaimedRow(jobs[j]).attempts]})]]
            /\ claimCount' = [claimCount EXCEPT ![j] = @ + 1]
            /\ history' = [history EXCEPT ![j] = Append(@, ClaimedRow(jobs[j]).status)]
    /\ UNCHANGED <<instances, submissions, currentWorkers, poller, isTickRunning, execs, failCount>>

\* The statement fails (database unavailable, busy or locked): the call of
\* one of w's suspended ticks rejects and no row changes.
TickClaimThrows(w) ==
    /\ w \in instances
    /\ ticks[w].claiming > 0
    /\ ticks' = [ticks EXCEPT ![w] =
           [claiming |-> @.claiming - 1, resolved |-> @.resolved (+) SetToBag({Rejected})]]
    /\ UNCHANGED <<instances, submissions, jobs, currentWorkers, poller, isTickRunning,
                   execs, claimCount, failCount, history>>

\* ---- runTick ----
\* The activations of runTick of w that have not returned.
Suspended(w) == ticks[w].claiming + BagCardinality(ticks[w].resolved)

\* (a runTick without the isTickRunning guard)
RunTickUnguarded(w) ==
    IF currentWorkers[w] < maxConcurrent
    THEN /\ Suspended(w) < MaxTicks
         /\ ticks' = [ticks EXCEPT ![w].claiming = @ + 1]
         /\ isTickRunning' = [isTickRunning EXCEPT ![w] = TRUE]
    ELSE /\ isTickRunning' = [isTickRunning EXCEPT ![w] = FALSE]
         /\ UNCHANGED ticks

\* runTick up to its first await: the isTickRunning guard, the flag, the
\* first evaluation of the while condition.  With no capacity the try block
\* ends at once and the finally clears the flag in the same step.
RunTick(w) ==
    IF isTickRunning[w]
    THEN UNCHANGED <<isTickRunning, ticks>>
    ELSE IF currentWorkers[w] < maxConcurrent
         THEN /\ Suspended(w) < MaxTicks
              /\ ticks' = [ticks EXCEPT ![w].claiming = @ + 1]
              /\ isTickRunning' = [isTickRunning EXCEPT ![w] = TRUE]
         ELSE UNCHANGED <<isTickRunning, ticks>>

\* (a timer whose callback does not run a tick)
TimerFireIdle(w) ==
    /\ w \in instances
    /\ poller[w]
    /\ UNCHANGED vars

\* setInterval callback
TimerFire(w) ==
    /\ w \in instances
    /\ poller[w]
    /\ RunTick(w)
    /\ UNCHANGED <<instances, submissions, jobs, currentWorkers, poller, execs,
                   claimCount, failCount, history>>

\* (a runTick whose flag is cleared after the loop instead of in a finally)
TickResumeNoFinally(w, ret) ==
    /\ w \in instances
    /\ BagIn(ret, ticks[w].resolved)
    /\ IF ret = Rejected
       THEN /\ ticks' = [ticks EXCEPT ![w].resolved = @ (-) SetToBag({ret})]
            /\ UNCHANGED <<isTickRunning, currentWorkers, execs>>
       ELSE IF ret = NoRow
       THEN /\ ticks' = [ticks EXCEPT ![w].resolved = @ (-) SetToBag({ret})]
            /\ isTickRunning' = [isTickRunning EXCEPT ![w] = FALSE]
            /\ UNCHANGED <<currentWorkers, execs>>
       ELSE /\ currentWorkers' = [currentWorkers EXCEPT ![w] = @ + 1]
            /\ execs' = execs \cup
                   {[worker |-> w, id |-> ret.id, attempts |-> ret.attempts,
                     headers |-> RequestHeaders(jobs[ret.id]),
                     pc |-> IF ParseHeaders(jobs[ret.id].headers).ok
                            THEN "fetch" ELSE "catch"]}
            /\ IF currentWorkers[w] + 1 < maxConcurrent
               THEN /\ ticks' = [ticks EXCEPT ![w] =
                           [claiming |-> @.claiming + 1,
                            resolved |-> @.resolved (-) SetToBag({ret})]]
                    /\ UNCHANGED isTickRunning
               ELSE /\ ticks' = [ticks EXCEPT ![w].resolved = @ (-) SetToBag({ret})]
                    /\ isTickRunning' = [isTickRunning EXCEPT ![w] = FALSE]
    /\ UNCHANGED <<instances, submissions, jobs, poller, claimCount, failCount, history>>

\* (a loop that awaits executeJob: the continuation waits for the
\* executions in flight)
TickResumeAwaitsJob(w, ret) ==
    /\ w \in instances
    /\ BagIn(ret, ticks[w].resolved)
    /\ \A x \in execs : x.worker # w
    /\ IF ret \in {NoRow, Rejected}
       THEN /\ ticks' = [ticks EXCEPT ![w].resolved = @ (-) SetToBag({ret})]
            /\ isTickRunning' = [isTickRunning EXCEPT ![w] = FALSE]
            /\ UNCHANGED <<currentWorkers, execs>>
       ELSE /\ currentWorkers' = [currentWorkers EXCEPT ![w] = @ + 1]
            /\ execs' = execs \cup
                   {[worker |-> w, id |-> ret.id, attempts |-> ret.attempts,
                     headers |-> RequestHeaders(jobs[ret.id]),
                     pc |-> IF ParseHeaders(jobs[ret.id].headers).ok
                            THEN "fetch" ELSE "catch"]}
            /\ IF currentWorkers[w] + 1 < maxConcurrent
               THEN /\ ticks' = [ticks EXCEPT ![w] =
                           [claiming |-> @.claiming + 1,
                            resolved |-> @.resolved (-) SetToBag({ret})]]
                    /\ UNCHANGED isTickRunning
               ELSE /\ ticks' = [ticks EXCEPT ![w].resolved = @ (-) SetToBag({ret})]
                    /\ isTickRunning' = [isTickRunning EXCEPT ![w] = FALSE]
    /\ UNCHANGED <<instances, submissions, jobs, poller, claimCount, failCount, history>>

\* (a runTick that launches one job and returns)
TickResumeOneLaunch(w, ret) ==
    /\ w \in instances
    /\ BagIn(ret, ticks[w].resolved)
    /\ ticks' = [ticks EXCEPT ![w].resolved = @ (-) SetToBag({ret})]
    /\ isTickRunning' = [isTickRunning EXCEPT ![w] = FALSE]
    /\ IF ret \in {NoRow, Rejected}
       THEN UNCHANGED <<currentWorkers, execs>>
       ELSE /\ currentWorkers' = [currentWorkers EXCEPT ![w] = @ + 1]
            /\ execs' = execs \cup
                   {[worker |-> w, id |-> ret.id, attempts |-> ret.attempts,
                     headers |-> RequestHeaders(jobs[ret.id]),
                     pc |-> IF ParseHeaders(jobs[ret.id].headers).ok
                            THEN "fetch" ELSE "catch"]}
    /\ UNCHANGED <<instances, submissions, jobs, poller, claimCount, failCount, history>>

\* The continuation of `await claimNextJob()` of a tick that received ret:
\* break on none, catch on a rejection (both reach the finally); otherwise
\* executeJob runs up to its first await (currentWorkers += 1, then the
\* request is issued: pc "fetch", or parseHeaders throws and the failure
\* write is issued: pc "catch") and the while condition is evaluated again.
TickResume(w, ret) ==
    /\ w \in instances
    /\ BagIn(ret, ticks[w].resolved)
    /\ IF ret \in {NoRow, Rejected}
       THEN /\ ticks' = [ticks EXCEPT ![w].resolved = @ (-) SetToBag({ret})]
            /\ isTickRunning' = [isTickRunning EXCEPT ![w] = FALSE]
            /\ UNCHANGED <<currentWorkers, execs>>
       ELSE /\ currentWorkers' = [currentWorkers EXCEPT ![w] = @ + 1]
            /\ execs' = execs \cup
                   {[worker |-> w, id |-> ret.id, attempts |-> ret.attempts,
                     headers |-> RequestHeaders(jobs[ret.id]),
                     pc |-> IF ParseHeaders(jobs[ret.id].headers).ok
                            THEN "fetch" ELSE "catch"]}
            /\ IF currentWorkers[w] + 1 < maxConcurrent
               THEN /\ ticks' = [ticks EXCEPT ![w] =
                           [claiming |-> @.claiming + 1,
                            resolved |-> @.resolved (-) SetToBag({ret})]]
                    /\ UNCHANGED isTickRunning
               ELSE /\ ticks' = [ticks EXCEPT ![w].resolved = @ (-) SetToBag({ret})]
                    /\ isTickRunning' = [isTickRunning EXCEPT ![w] = FALSE]
    /\ UNCHANGED <<instances, submissions, jobs, poller, claimCount, failCount, history>>

\* (a catch block that never requeues)
FailureStatusNeverRequeues(jobAttempts) == "failed"

\* (a catch block that requeues whatever the attempts)
FailureStatusAlwaysRequeues(jobAttempts) == "pending"

\* ---- executeJob ----
\* status: nextAttempts < maxAttempts ? "pending" : "failed", with
\* nextAttempts = job.attempts + 1 and job the row the claim returned
FailureStatus(jobAttempts) ==
    IF jobAttempts + 1 < maxAttempts THEN "pending" ELSE "failed"

\* (a completion update that stores the result and leaves the status)
CompletedRowResultOnly(row, result) == [row EXCEPT !.result = result]

\* (a completion write that leaves the result out)
CompletedRowNoResult(row, result) ==
    [row EXCEPT !.status = "completed", !.errorMessage = Null]

\* (a completion write that leaves the errorMessage of an earlier attempt)
CompletedRowKeepsMessage(row, result) ==
    [row EXCEPT !.status = "completed", !.result = result]

\* data: {status: "completed", result, errorMessage: null}
CompletedRow(row, result) ==
    [row EXCEPT !.status = "completed", !.result = result, !.errorMessage = Null]

\* (a failure write that leaves the errorMessage column alone)
FailedRowNoMessage(row, jobAttempts, errorMessage) ==
    [row EXCEPT !.status = FailureStatus(jobAttempts),
                !.result = Null,
                !.attempts = row.attempts + 1]

\* (a failure update that also moves the job to the back of its priority)
FailedRowRequeuedLast(row, jobAttempts, errorMessage) ==
    [row EXCEPT !.status = FailureStatus(jobAttempts),
                !.errorMessage = errorMessage,
                !.result = Null,
                !.attempts = row.attempts + 1,
                !.createdAt = MaxJobs + 1]

\* data: {status, errorMessage, result: null, attempts: {increment: 1}}
FailedRow(row, jobAttempts, errorMessage) ==
    [row EXCEPT !.status = FailureStatus(jobAttempts),
                !.errorMessage = errorMessage,
                !.result = Null,
                !.attempts = row.attempts + 1]

\* The response is 2xx: the body is read and the completion write commits.
ExecComplete(x) ==
    /\ x \in execs
    /\ x.pc = "fetch"
    /\ LET resp == Respond(jobs[x.id].url) IN
       /\ resp.ok
       /\ jobs' = [jobs EXCEPT ![x.id] = CompletedRow(jobs[x.id], StoredResult(resp))]
       /\ history' = [history EXCEPT ![x.id] =
              Append(@, CompletedRow(jobs[x.id], StoredResult(resp)).status)]
    /\ execs' = (execs \ {x}) \cup {[x EXCEPT !.pc = "finally"]}
    /\ UNCHANGED <<instances, submissions, currentWorkers, poller, isTickRunning, ticks,
                   claimCount, failCount>>

\* The response is not ok: the throw reaches the catch block and the
\* failure write commits.
ExecFail(x) ==
    /\ x \in execs
    /\ x.pc = "fetch"
    /\ LET resp == Respond(jobs[x.id].url) IN
       /\ ~resp.ok
       /\ jobs' = [jobs EXCEPT ![x.id] =
              FailedRow(jobs[x.id], x.attempts, FailureMessage(resp))]
       /\ history' = [history EXCEPT ![x.id] = Append(@, FailureStatus(x.attempts))]
    /\ failCount' = [failCount EXCEPT ![x.id] = @ + 1]
    /\ execs' = (execs \ {x}) \cup {[x EXCEPT !.pc = "finally"]}
    /\ UNCHANGED <<instances, submissions, currentWorkers, poller, isTickRunning, ticks,
                   claimCount>>

\* parseHeaders threw, no request was sent: the failure write commits.
ExecReport(x) ==
    /\ x \in execs
    /\ x.pc = "catch"
    /\ jobs' = [jobs EXCEPT ![x.id] =
           FailedRow(jobs[x.id], x.attempts, ParseHeaders(jobs[x.id].headers).message)]
    /\ history' = [history EXCEPT ![x.id] = Append(@, FailureStatus(x.attempts))]
    /\ failCount' = [failCount EXCEPT ![x.id] = @ + 1]
    /\ execs' = (execs \ {x}) \cup {[x EXCEPT !.pc = "finally"]}
    /\ UNCHANGED <<instances, submissions, currentWorkers, poller, isTickRunning, ticks,
                   claimCount>>

\* fetch rejects with e (no response): the catch block's failure write
\* commits.
ExecTransportError(x, e) ==
    /\ x \in execs
    /\ x.pc = "fetch"
    /\ jobs' = [jobs EXCEPT ![x.id] = FailedRow(jobs[x.id], x.attempts, e)]
    /\ history' = [history EXCEPT ![x.id] = Append(@, FailureStatus(x.attempts))]
    /\ failCount' = [failCount EXCEPT ![x.id] = @ + 1]
    /\ execs' = (execs \ {x}) \cup {[x EXCEPT !.pc = "finally"]}
    /\ UNCHANGED <<instances, submissions, currentWorkers, poller, isTickRunning, ticks,
                   claimCount>>

\* The response is 2xx but the completion write rejects: the catch block's
\* failure write commits, with the message of the store's error.
ExecCompleteWriteThrows(x) ==
    /\ x \in execs
    /\ x.pc = "fetch"
    /\ Respond(jobs[x.id].url).ok
    /\ jobs' = [jobs EXCEPT ![x.id] = FailedRow(jobs[x.id], x.attempts, WriteError)]
    /\ history' = [history EXCEPT ![x.id] = Append(@, FailureStatus(x.attempts))]
    /\ failCount' = [failCount EXCEPT ![x.id] = @ + 1]
    /\ execs' = (execs \ {x}) \cup {[x EXCEPT !.pc = "finally"]}
    /\ UNCHANGED <<instances, submissions, currentWorkers, poller, isTickRunning, ticks,
                   claimCount>>

\* The execution failed (whatever the reason) and the failure write in the
\* catch block rejects too: nothing is written, the error leaves executeJob
\* through its finally, and `void executeJob(job)` drops the rejection.
ExecReportThrows(x) ==
    /\ x \in execs
    /\ x.pc \in {"fetch", "catch"}
    /\ failCount' = [failCount EXCEPT ![x.id] = @ + 1]
    /\ execs' = (execs \ {x}) \cup {[x EXCEPT !.pc = "finally"]}
    /\ UNCHANGED <<instances, submissions, jobs, currentWorkers, poller, isTickRunning,
                   ticks, claimCount, history>>

\* finally { currentWorkers = Math.max(0, currentWorkers - 1) }
ExecFinish(x) ==
    /\ x \in execs
    /\ x.pc = "finally"
    /\ currentWorkers' = [currentWorkers EXCEPT ![x.worker] = Max(0, @ - 1)]
    /\ execs' = execs \ {x}
    /\ UNCHANGED <<instances, submissions, jobs, poller, isTickRunning, ticks,
                   claimCount, failCount, history>>

\* ---- startWorker / stopWorker ----
\* (a startWorker without the `if (poller) return`)
startWorkerAgain(w) ==
    /\ w \in instances
    /\ poller' = [poller EXCEPT ![w] = TRUE]
    /\ RunTick(w)
    /\ UNCHANGED <<instances, submissions, jobs, currentWorkers, execs, claimCount, failCount, history>>

startWorker(w) ==
    /\ w \in instances
    /\ IF poller[w]
       THEN UNCHANGED <<poller, isTickRunning, ticks>>
       ELSE /\ poller' = [poller EXCEPT ![w] = TRUE]
            /\ RunTick(w)
    /\ UNCHANGED <<instances, submissions, jobs, currentWorkers, execs, claimCount, failCount, history>>

\* (a stopWorker that also drops the executions in flight)
stopWorkerCancels(w) ==
    /\ w \in instances
    /\ IF ~poller[w]
       THEN UNCHANGED <<poller, isTickRunning, execs, currentWorkers>>
       ELSE /\ poller' = [poller EXCEPT ![w] = FALSE]
            /\ isTickRunning' = [isTickRunning EXCEPT ![w] = FALSE]
            /\ execs' = {x \in execs : x.worker # w}
            /\ currentWorkers' = [currentWorkers EXCEPT ![w] = 0]
    /\ UNCHANGED <<instances, submissions, jobs, ticks, claimCount, failCount, history>>

stopWorker(w) ==
    /\ w \in instances
    /\ IF ~poller[w]
       THEN UNCHANGED <<poller, isTickRunning>>
       ELSE /\ poller' = [poller EXCEPT ![w] = FALSE]
            /\ isTickRunning' = [isTickRunning EXCEPT ![w] = FALSE]
    /\ UNCHANGED <<instances, submissions, jobs, currentWorkers, ticks, execs,
                   claimCount, failCount, history>>

\* ---- resetWorkerStateForTest ----
\* currentWorkers = 0; isTickRunning = false; poller = null.  The interval
\* is not cleared, so the call is made with no timer set (after stopWorker,
\* as the e2e suite makes it); suspended ticks and executions in flight are
\* not touched.
resetWorkerStateForTest(w) ==
    /\ w \in instances
    /\ ~poller[w]
    /\ currentWorkers' = [currentWorkers EXCEPT ![w] = 0]
    /\ isTickRunning' = [isTickRunning EXCEPT ![w] = FALSE]
    /\ poller' = [poller EXCEPT ![w] = FALSE]
    /\ UNCHANGED <<instances, submissions, jobs, ticks, execs, claimCount, failCount,
                   history>>

\* ---- specifications ----
InitEngine ==
    /\ jobs = [j \in JobIds |-> AbsentJob]
    /\ currentWorkers = [w \in Workers |-> 0]
    /\ poller = [w \in Workers |-> FALSE]
    /\ isTickRunning = [w \in Workers |-> FALSE]
    /\ ticks = [w \in Workers |-> NoTicks]
    /\ execs = {}
    /\ claimCount = [j \in JobIds |-> 0]
    /\ failCount = [j \in JobIds |-> 0]
    /\ history = [j \in JobIds |-> <<>>]

\* One process owns the queue.
Init == instances = {workerId} /\ submissions = Submissions /\ InitEngine

\* One process, and a backlog that can exceed maxConcurrent executions.
InitBacklog == instances = {workerId} /\ submissions = BacklogJobs /\ InitEngine

\* One process and few jobs, for the specifications in which requests and
\* statements can fail.
InitSingle == instances = {workerId} /\ submissions = FaultJobs /\ InitEngine

\* Two processes poll the same database.
InitCluster == instances = Workers /\ submissions = Submissions /\ InitEngine

\* The steps of the engine with a healthy target, store and request data.
Engine ==
    \/ \E w \in Workers : startWorker(w)
    \/ \E w \in Workers : stopWorker(w)
    \/ \E w \in Workers : TimerFire(w)
    \/ \E w \in Workers : TickClaim(w)
    \/ \E w \in Workers : \E ret \in BagToSet(ticks[w].resolved) : TickResume(w, ret)
    \/ \E x \in execs : ExecComplete(x)
    \/ \E x \in execs : ExecFail(x)
    \/ \E x \in execs : ExecFinish(x)

Next ==
    \/ \E p \in Priorities, u \in Urls : CreateJob(p, u, WellFormed, "alice")
    \/ Engine

\* Jobs whose headers parseHeaders refuses, and requests that end without a
\* response.
NextExecutor ==
    \/ \E p \in Priorities, u \in Urls, h \in HeaderTexts : CreateJob(p, u, h, "alice")
    \/ Engine
    \/ \E x \in execs : ExecReport(x)
    \/ \E x \in execs : \E e \in TransportErrors : ExecTransportError(x, e)

\* And a store whose statements can fail.
NextStore ==
    \/ NextExecutor
    \/ \E w \in Workers : TickClaimThrows(w)
    \/ \E x \in execs : ExecCompleteWriteThrows(x)
    \/ \E x \in execs : ExecReportThrows(x)

Spec == Init /\ [][Next]_vars

SpecExecutor == InitSingle /\ [][NextExecutor]_vars

\* Jobs of several accounts in one store.
NextApi ==
    \/ \E p \in Priorities, u \in Urls, o \in Users : CreateJob(p, u, WellFormed, o)
    \/ Engine

SpecApi == Init /\ [][NextApi]_vars

\* From startWorker to the first callback of the interval timer
\* (pollIntervalMs later): the only activation of runTick of a process is the
\* one startWorker makes.
NextFirstTick ==
    \/ \E p \in Priorities, u \in Urls, h \in HeaderTexts : CreateJob(p, u, h, "alice")
    \/ \E w \in Workers : startWorker(w)
    \/ \E w \in Workers : TickClaim(w)
    \/ \E w \in Workers : \E ret \in BagToSet(ticks[w].resolved) : TickResume(w, ret)
    \/ \E x \in execs : ExecComplete(x)
    \/ \E x \in execs : ExecFail(x)
    \/ \E x \in execs : ExecReport(x)
    \/ \E x \in execs : ExecFinish(x)

SpecFirstTick == Init /\ [][NextFirstTick]_vars

\* One call executeJob(job), for every job record: the row is processing with
\* the attempts the claim returned, and the call has reached its first await.
InitPolicy ==
    /\ instances = {workerId}
    /\ submissions = 0
    /\ \E a \in 1..MaxClaimed, p \in Priorities, u \in Urls, h \in HeaderTexts, o \in Users :
         /\ jobs = [j \in JobIds |->
                IF j = 1
                THEN [status |-> "processing", attempts |-> a, result |-> Null,
                      errorMessage |-> Null, priority |-> p, createdAt |-> 1, url |-> u,
                      headers |-> h, body |-> Null, userId |-> o]
                ELSE AbsentJob]
         /\ execs = {[worker |-> workerId, id |-> 1, attempts |-> a,
                      headers |-> {},
                      pc |-> IF ParseHeaders(h).ok THEN "fetch" ELSE "catch"]}
    /\ currentWorkers = [w \in Workers |-> IF w = workerId THEN 1 ELSE 0]
    /\ poller = [w \in Workers |-> FALSE]
    /\ isTickRunning = [w \in Workers |-> FALSE]
    /\ ticks = [w \in Workers |-> NoTicks]
    /\ claimCount = [j \in JobIds |-> IF j = 1 THEN 1 ELSE 0]
    /\ failCount = [j \in JobIds |-> 0]
    /\ history = [j \in JobIds |-> IF j = 1 THEN <<"pending", "processing">> ELSE <<>>]

NextPolicy ==
    \/ \E x \in execs : ExecComplete(x)
    \/ \E x \in execs : ExecFail(x)
    \/ \E x \in execs : ExecReport(x)
    \/ \E x \in execs : \E e \in TransportErrors : ExecTransportError(x, e)
    \/ \E x \in execs : ExecFinish(x)

SpecPolicy == InitPolicy /\ [][NextPolicy]_vars

\* One claimed job of every shape of headers and body, handed to the tick
\* that claimed it: the continuation calls executeJob, which builds the
\* request.
InitHeaders ==
    /\ instances = {workerId}
    /\ submissions = 0
    /\ \E u \in Urls, h \in SuppliedTexts, b \in Bodies :
         jobs = [j \in JobIds |->
                   IF j = 1
                   THEN [status |-> "processing", attempts |-> 1, result |-> Null,
                         errorMessage |-> Null, priority |-> 1, createdAt |-> 1,
                         url |-> u, headers |-> h, body |-> b, userId |-> "alice"]
                   ELSE AbsentJob]
    /\ execs = {}
    /\ currentWorkers = [w \in Workers |-> 0]
    /\ poller = [w \in Workers |-> w = workerId]
    /\ isTickRunning = [w \in Workers |-> w = workerId]
    /\ ticks = [w \in Workers |->
                  IF w = workerId
                  THEN [claiming |-> 0,
                        resolved |-> SetToBag({[id |-> 1, attempts |-> 1]})]
                  ELSE NoTicks]
    /\ claimCount = [j \in JobIds |-> IF j = 1 THEN 1 ELSE 0]
    /\ failCount = [j \in JobIds |-> 0]
    /\ history = [j \in JobIds |-> IF j = 1 THEN <<"pending", "processing">> ELSE <<>>]

NextHeaders ==
    \/ \E w \in Workers : TickClaim(w)
    \/ \E w \in Workers : \E ret \in BagToSet(ticks[w].resolved) : TickResume(w, ret)
    \/ \E x \in execs : ExecComplete(x)
    \/ \E x \in execs : ExecFail(x)
    \/ \E x \in execs : ExecFinish(x)

SpecHeaders == InitHeaders /\ [][NextHeaders]_vars

\* A full table of pending jobs whose target answers 500, one process, and a
\* store that answers the claims and rejects the failure writes of the
\* executions (the row is locked, or the update violates a constraint).
InitOutage ==
    /\ instances = {workerId}
    /\ submissions = 0
    /\ jobs = [j \in JobIds |->
                 [status |-> "pending", attempts |-> 0, result |-> Null,
                  errorMessage |-> Null, priority |-> 1, createdAt |-> j, url |-> "/fail",
                  headers |-> WellFormed, body |-> Null, userId |-> "alice"]]
    /\ currentWorkers = [w \in Workers |-> 0]
    /\ poller = [w \in Workers |-> FALSE]
    /\ isTickRunning = [w \in Workers |-> FALSE]
    /\ ticks = [w \in Workers |-> NoTicks]
    /\ execs = {}
    /\ claimCount = [j \in JobIds |-> 0]
    /\ failCount = [j \in JobIds |-> 0]
    /\ history = [j \in JobIds |-> <<"pending">>]

NextOutage ==
    \/ \E w \in Workers : startWorker(w)
    \/ \E w \in Workers : TimerFire(w)
    \/ \E w \in Workers : TickClaim(w)
    \/ \E w \in Workers : \E ret \in BagToSet(ticks[w].resolved) : TickResume(w, ret)
    \/ \E x \in execs : ExecReportThrows(x)
    \/ \E x \in execs : ExecFinish(x)

SpecOutage == InitOutage /\ [][NextOutage]_vars

\* A process whose state the e2e suite resets between its cases.
NextReset ==
    \/ Next
    \/ \E w \in Workers : resetWorkerStateForTest(w)

\* A store that can reject the writes of executeJob, with well-formed jobs
\* and a target that always answers: an execution of a job whose target
\* answers 2xx fails only through its completion write.
NextCompletion ==
    \/ Next
    \/ \E x \in execs : ExecCompleteWriteThrows(x)
    \/ \E x \in execs : ExecReportThrows(x)

SpecCompletion == InitSingle /\ [][NextCompletion]_vars

SpecReset == Init /\ [][NextReset]_vars

SpecStore == InitSingle /\ [][NextStore]_vars

SpecBacklog == InitBacklog /\ [][Next]_vars

SpecCluster == InitCluster /\ [][Next]_vars

\* The rows a claim can return.
AllRows == {NoRow} \cup [id : JobIds, attempts : 1..(2 * maxAttempts)]

\* The interval timer keeps firing, the database answers every statement,
\* every continuation runs and every request ends (requestTimeoutMs).  The
\* continuations that launch a job and the steps of the executions are
\* finitely many, so fairness for each follows from fairness for the group.
Fairness ==
    /\ \A w \in Workers :
        /\ WF_vars(TimerFire(w))
        /\ WF_vars(TickClaim(w))
        /\ WF_vars(TickResume(w, NoRow))
        /\ WF_vars(\E ret \in BagToSet(ticks[w].resolved) \ {NoRow, Rejected} :
                      TickResume(w, ret))
    /\ WF_vars(\E x \in execs : ExecComplete(x) \/ ExecFail(x) \/ ExecFinish(x))

FairSpec == Init /\ [][Next]_vars /\ Fairness

\* With failures: a rejected claim reaches its continuation too, and every
\* execution reaches one of its outcomes and then its finally.
FairnessStore ==
    /\ \A w \in Workers :
        /\ WF_vars(TimerFire(w))
        /\ WF_vars(TickClaim(w) \/ TickClaimThrows(w))
        /\ WF_vars(TickResume(w, NoRow))
        /\ WF_vars(TickResume(w, Rejected))
        /\ WF_vars(\E ret \in BagToSet(ticks[w].resolved) \ {NoRow, Rejected} :
                      TickResume(w, ret))
    /\ WF_vars(\E x \in execs :
            \/ ExecComplete(x) \/ ExecFail(x) \/ ExecReport(x)
            \/ \E e \in TransportErrors : ExecTransportError(x, e)
            \/ ExecCompleteWriteThrows(x) \/ ExecReportThrows(x)
            \/ ExecFinish(x))

FairSpecStore == InitSingle /\ [][NextStore]_vars /\ FairnessStore

FairSpecBacklog == InitBacklog /\ [][Next]_vars /\ Fairness

TypeOK ==
    /\ instances \subseteq Workers
    /\ submissions \in 0..MaxJobs
    /\ \A j \in JobIds :
         jobs[j].status \in {"absent", "pending", "processing", "completed", "failed"}
    /\ \A w \in Workers : currentWorkers[w] \in Nat
    /\ \A x \in execs : x.pc \in {"fetch", "catch", "finally"}
    /\ \A w \in Workers : ticks[w].claiming \in 0..MaxTicks /\ IsABag(ticks[w].resolved)

\* ======================= properties of the engine =======================

\* A step in which the claim statement of one of w's ticks commits.
ClaimReturns(w) == ticks'[w].claiming < ticks[w].claiming

\* What that statement returned: the row that joined the returned rows.
Returned(w) ==
    CHOOSE r \in BagToSet(ticks'[w].resolved) :
        CopiesIn(r, ticks'[w].resolved) = CopiesIn(r, ticks[w].resolved) + 1

\* The claimed rows of job j that ticks hold and have not launched yet.
Holders(j) ==
    {h \in Workers \X AllRows : h[2].id = j /\ BagIn(h[2], ticks[h[1]].resolved)}

HeldOnce(j) ==
    \A w \in Workers : \A r \in BagToSet(ticks[w].resolved) :
        r.id = j => CopiesIn(r, ticks[w].resolved) = 1

\* C1 -- No double-claim.  A claimNextJob call returns a job exactly when a
\* job is pending as its statement runs, the job it returns is pending at
\* that moment and is no longer pending afterwards, and no other job changes;
\* so of the calls issued while one job is pending one returns it and the
\* others return none.  No job is ever held by two returned calls.
C1_NoDoubleClaim ==
    /\ [](\A j \in JobIds : Cardinality(Holders(j)) <= 1 /\ HeldOnce(j))
    /\ [][\A w \in Workers :
            ClaimReturns(w) =>
                LET before == {j \in JobIds : jobs[j].status = "pending"}
                    after == {j \in JobIds : jobs'[j].status = "pending"}
                    ret == Returned(w)
                IN IF before = {}
                   THEN ret = NoRow /\ jobs' = jobs
                   ELSE /\ ret.id \in before
                        /\ after = before \ {ret.id}
                        /\ \A k \in JobIds \ {ret.id} : jobs'[k] = jobs[k]]_vars

\* Two calls have returned while job 1 is the only job and has been claimed
\* once: one returned job 1, the other returned none.
C1_Witness ==
    /\ Existing = {1}
    /\ claimCount[1] = 1
    /\ BagIn([id |-> 1, attempts |-> 1], ticks[workerId].resolved)
    /\ BagIn(NoRow, ticks[workerId].resolved)

\* The executions of job j between their claim and their final status write.
InFlight(j) == {x \in execs : x.id = j /\ x.pc # "finally"}

\* C2 -- At most one execution per job.  In every state, for every job, the
\* claimed rows not launched yet and the executions that have not written
\* their final status number at most one, over all processes; and the job of
\* such an execution has status processing.
C2_OneExecutionPerJob ==
    \A j \in JobIds :
        /\ HeldOnce(j)
        /\ Cardinality(Holders(j)) + Cardinality(InFlight(j)) <= 1
        /\ Cardinality(Holders(j)) + Cardinality(InFlight(j)) = 1
               => jobs[j].status = "processing"

\* A job is executed by one process while the other process runs the
\* finally block of the job's previous, failed execution.
C2_Witness ==
    \E x, y \in execs :
        /\ x.id = y.id
        /\ x.worker # y.worker
        /\ x.pc = "finally"
        /\ y.pc = "fetch"

\* C3 -- Concurrency ceiling.  In every state the in-flight count of every
\* process is at most maxConcurrent.
C3_Ceiling == \A w \in Workers : currentWorkers[w] <= maxConcurrent

\* C4 -- attempts is monotonic and bounded.  No step lowers the attempts of
\* a job, and in every state attempts is at most maxAttempts.
C4_AttemptsBounded ==
    /\ [](\A j \in JobIds : jobs[j].attempts <= maxAttempts)
    /\ [][\A j \in JobIds : jobs'[j].attempts >= jobs[j].attempts]_vars

\* C5 -- One increment per claim.  In every state the attempts of a job is
\* the number of times claimNextJob has returned it.
C5_AttemptsCountClaims == \A j \in JobIds : jobs[j].attempts = claimCount[j]

\* C6 -- Shape of a failed job.  In every state a job with status failed has
\* attempts = maxAttempts and an errorMessage.
C6_FailedShape ==
    \A j \in JobIds :
        jobs[j].status = "failed" =>
            jobs[j].attempts = maxAttempts /\ jobs[j].errorMessage # Null

Min(a, b) == IF a < b THEN a ELSE b

\* C7 -- Attempts after k failures.  In every state a job that is not claimed
\* at the moment (pending or failed) and has had k failed executions has
\* attempts = min(k, maxAttempts), and it is failed exactly when its attempts
\* has reached maxAttempts.
C7_AttemptsAfterFailures ==
    \A j \in JobIds :
        jobs[j].status \in {"pending", "failed"} =>
            /\ jobs[j].attempts = Min(failCount[j], maxAttempts)
            /\ jobs[j].status = "failed" <=> jobs[j].attempts = maxAttempts

IsPrefix(s, t) == Len(s) <= Len(t) /\ SubSeq(t, 1, Len(s)) = s

Contains(s, token) == \E i \in DOMAIN s : s[i] = token

RetryScenario ==
    <<"pending", "processing", "pending", "processing", "pending", "processing", "failed">>

\* C8 -- Retry scenario.  The statuses of a job whose target always answers
\* 500 follow pending, processing, pending, processing, pending, processing,
\* failed; once it is failed it has been through all of them, its attempts
\* is 3 and its errorMessage contains 500.
C8_RetryScenario ==
    \A j \in JobIds :
        jobs[j].url = "/fail" =>
            /\ IsPrefix(history[j], RetryScenario)
            /\ jobs[j].status = "failed" =>
                   /\ history[j] = RetryScenario
                   /\ jobs[j].attempts = 3
                   /\ Contains(jobs[j].errorMessage, "500")

SuccessScenario == <<"pending", "processing", "completed">>

\* C9 -- Success scenario.  The statuses of a job whose target answers 200
\* follow pending, processing, completed; once it is completed it has been
\* through all three, its result is the response payload and its
\* errorMessage is null.  While the worker stays started, such a job that is
\* pending is eventually completed.
C9_SuccessScenario ==
    /\ [](\A j \in JobIds :
            jobs[j].url = "/success" =>
                /\ IsPrefix(history[j], SuccessScenario)
                /\ jobs[j].status = "completed" =>
                       /\ history[j] = SuccessScenario
                       /\ jobs[j].result = <<"{", "ok", ":", "true", "}">>
                       /\ jobs[j].errorMessage = Null)
    /\ \A j \in JobIds :
            (jobs[j].status = "pending" /\ jobs[j].url = "/success" /\ poller[workerId])
                ~> (jobs[j].status = "completed" \/ ~poller[workerId])

\* A job whose target answers 200 is completed while the worker is started
\* and the other job is still waiting.
C9_Witness ==
    \E j \in JobIds :
        /\ jobs[j].url = "/success"
        /\ jobs[j].status = "completed"
        /\ history[j] = SuccessScenario
        /\ poller[workerId]
        /\ \E k \in JobIds \ {j} : jobs[k].status = "pending"

\* C10 -- Priority/age ordering.  Whenever a claimNextJob call returns job j,
\* no other job that was pending as its statement ran has a lower priority
\* value than j, or the same priority and an earlier createdAt.
C10_ClaimOrder ==
    [][\A w \in Workers :
        (ClaimReturns(w) /\ Returned(w) # NoRow) =>
            LET j == Returned(w).id IN
            \A k \in JobIds \ {j} :
                jobs[k].status = "pending" =>
                    ~ \/ jobs[k].priority < jobs[j].priority
                      \/ /\ jobs[k].priority = jobs[j].priority
                         /\ jobs[k].createdAt < jobs[j].createdAt]_vars

\* Jobs A, B, C with priorities 5, 1, 1 were inserted in this order and all
\* waited; the first claim has returned B, and A and C are still pending.
C10_Witness ==
    /\ Existing = {1, 2, 3}
    /\ jobs[1].priority = 5 /\ jobs[2].priority = 1 /\ jobs[3].priority = 1
    /\ claimCount[1] = 0 /\ claimCount[2] = 1 /\ claimCount[3] = 0
    /\ jobs[1].status = "pending" /\ jobs[3].status = "pending"
    /\ BagIn([id |-> 2, attempts |-> 1], ticks[workerId].resolved)

\* C11 -- Shape of a completed job.  In every state a job with status
\* completed has a result and a null errorMessage.
C11_CompletedShape ==
    \A j \in JobIds :
        jobs[j].status = "completed" =>
            jobs[j].result # Null /\ jobs[j].errorMessage = Null

\* A job is completed by its second execution: the first one failed and left
\* an errorMessage.
C11_Witness ==
    \E j \in JobIds :
        /\ jobs[j].status = "completed"
        /\ history[j] = <<"pending", "processing", "pending", "processing", "completed">>
        /\ failCount[j] = 1

\* C12 -- Every execution outcome ends in a store write.  Every job that is
\* claimed (status processing) eventually has status pending, completed or
\* failed written by its execution, whatever the outcome of the request and
\* of the store writes.
C12_OutcomeWritten ==
    \A j \in JobIds :
        (jobs[j].status = "processing")
            ~> (jobs[j].status \in {"pending", "completed", "failed"})

\* C13 -- Executor failures are reported.  Whenever an execution reaches its
\* outcome, either the job is completed, and then its headers were well
\* formed and the response was 2xx, or the job has an errorMessage, no
\* result, and is pending if the attempts its claim returned is below
\* maxAttempts and failed otherwise.  So malformed headers, a network error,
\* a timeout and a non-2xx response all end in a failure report.
C13_FailureReported ==
    [][\A x \in execs :
        (x.pc # "finally" /\ [x EXCEPT !.pc = "finally"] \in execs') =>
            \/ /\ jobs'[x.id].status = "completed"
               /\ jobs[x.id].headers = <<>>
               /\ jobs[x.id].url = "/success"
            \/ /\ jobs'[x.id].errorMessage # Null
               /\ jobs'[x.id].result = Null
               /\ jobs'[x.id].status =
                      IF x.attempts < maxAttempts THEN "pending" ELSE "failed"]_vars

\* A job with a healthy target and well-formed headers is terminally failed:
\* its last request timed out.
C13_Witness ==
    \E j \in JobIds :
        /\ jobs[j].url = "/success"
        /\ jobs[j].headers = <<>>
        /\ jobs[j].status = "failed"
        /\ jobs[j].errorMessage = <<"This operation was aborted">>

\* C14 -- Tick skipping.  While the tick-running flag of a process is set, no
\* step starts a further activation of runTick (the activations that have
\* not returned never grow in number, so a tick invoked meanwhile claims and
\* launches nothing, now or later), and the flag is cleared only by the end
\* of an activation or by stopWorker.
C14_TickSkipped ==
    [][\A w \in Workers :
        isTickRunning[w] =>
            /\ ticks'[w].claiming + BagCardinality(ticks'[w].resolved)
                   <= ticks[w].claiming + BagCardinality(ticks[w].resolved)
            /\ ~isTickRunning'[w] =>
                   \/ ticks'[w].claiming + BagCardinality(ticks'[w].resolved)
                          < ticks[w].claiming + BagCardinality(ticks[w].resolved)
                   \/ ~poller'[w]]_vars

\* The timer is set and a tick is still waiting for its second claim while
\* the job it launched has already been completed and has left the count.
C14_Witness ==
    /\ poller[workerId]
    /\ isTickRunning[workerId]
    /\ ticks[workerId].claiming = 1
    /\ BagCardinality(ticks[workerId].resolved) = 0
    /\ currentWorkers[workerId] = 0
    /\ \E j \in JobIds : jobs[j].status = "completed"

\* C15 -- A claim error aborts only the current tick.  The step in which a
\* claimNextJob call rejects changes no job, no execution, no in-flight count
\* and no flag; the step in which the tick handles the rejection clears the
\* tick-running flag, issues no further claim and leaves the jobs, the
\* executions and the in-flight count as they are; and the flag is never
\* left set without an activation of runTick to clear it, so the next timer
\* tick enters the claim loop.
C15_ClaimErrorAbortsTick ==
    /\ [](\A w \in Workers :
            isTickRunning[w] =>
                ticks[w].claiming + BagCardinality(ticks[w].resolved) > 0)
    /\ [][\A w \in Workers :
            /\ CopiesIn(Rejected, ticks'[w].resolved) > CopiesIn(Rejected, ticks[w].resolved)
                   => UNCHANGED <<jobs, execs, currentWorkers, isTickRunning, poller>>
            /\ CopiesIn(Rejected, ticks'[w].resolved) < CopiesIn(Rejected, ticks[w].resolved)
                   => /\ ~isTickRunning'[w]
                      /\ ticks'[w].claiming = ticks[w].claiming
                      /\ UNCHANGED <<jobs, execs, currentWorkers, poller>>]_vars

\* A tick has launched a job and its next claimNextJob call has rejected;
\* the execution is still waiting for its response.
C15_Witness ==
    /\ BagIn(Rejected, ticks[workerId].resolved)
    /\ isTickRunning[workerId]
    /\ \E x \in execs : x.worker = workerId /\ x.pc = "fetch"

\* C16 -- Idempotent start/stop.  A startWorker call on a started worker
\* changes no state (the timer handle stays the one that was set, no tick is
\* started), and a stopWorker call on a stopped worker changes no state: no
\* step that changes the state is such a call.
C16_IdempotentStartStop ==
    [][\A w \in Workers :
        /\ (poller[w] /\ startWorker(w)) => UNCHANGED vars
        /\ (~poller[w] /\ stopWorker(w)) => UNCHANGED vars]_vars

\* The worker is started, its first tick has ended and a job is pending: a
\* second startWorker call that ran a tick would claim it.
C16_Witness ==
    /\ poller[workerId]
    /\ ~isTickRunning[workerId]
    /\ ticks[workerId] = NoTicks
    /\ \E j \in JobIds : jobs[j].status = "pending"

\* C17 -- Status transitions.  A step changes the status of an existing job
\* only from pending to processing or from processing to completed, pending
\* or failed; and no step changes the status, attempts, result or
\* errorMessage of a job that is completed or failed.
C17_Transitions ==
    [][\A j \in JobIds :
        /\ (jobs[j].status # "absent" /\ jobs'[j].status # jobs[j].status) =>
               <<jobs[j].status, jobs'[j].status>> \in
                   {<<"pending", "processing">>, <<"processing", "completed">>,
                    <<"processing", "pending">>, <<"processing", "failed">>}
        /\ jobs[j].status \in {"completed", "failed"} =>
               /\ jobs'[j].status = jobs[j].status
               /\ jobs'[j].attempts = jobs[j].attempts
               /\ jobs'[j].result = jobs[j].result
               /\ jobs'[j].errorMessage = jobs[j].errorMessage]_vars

\* One job is failed and the other is completed while both processes still
\* poll.
C17_Witness ==
    /\ \E j, k \in JobIds : jobs[j].status = "failed" /\ jobs[k].status = "completed"
    /\ \A w \in Workers : poller[w]

C19_RetryInLaterTick == \A j \in JobIds : claimCount[j] <= 1

\* C20 -- Job ownership isolation.  In every state, for every user and every
\* status filter, each job GET /jobs lists for the user is owned by the user;
\* and GET /jobs/:id by the user for a job of another user answers 404 'Job
\* not found', the same answer as for an id that does not exist.
C20_OwnershipIsolation ==
    \A a \in Users :
        /\ \A f \in StatusFilters :
               LET answer == ListJobs(a, f) IN
               /\ answer.count = Len(answer.jobs)
               /\ \A i \in DOMAIN answer.jobs : jobs[answer.jobs[i]].userId = a
        /\ \A id \in JobIds :
               (jobs[id].status = "absent" \/ jobs[id].userId # a) =>
                   GetJob(a, id) = [status |-> 404, message |-> "Job not found",
                                    job |-> AbsentJob]

\* The store holds a job of each of two users and an id with no job.
C20_Witness ==
    \E j, k, n \in JobIds :
        /\ jobs[j].userId = "alice"
        /\ jobs[k].userId = "bob"
        /\ jobs[n].status = "absent"
        /\ jobs[k].status = "completed"

\* ---- C21 ----
\* C21: every job inserted by POST /jobs enters the table with status
\* pending, attempts 0 and null result and errorMessage, so the WHERE clause
\* of claimNextJob matches it from the state after the insert on.
C21_CreatedPending ==
    [][\A j \in JobIds :
          (jobs[j].status = "absent" /\ jobs'[j].status # "absent") =>
              /\ jobs'[j].status = "pending"
              /\ jobs'[j].attempts = 0
              /\ jobs'[j].result = <<>>
              /\ jobs'[j].errorMessage = <<>>
              /\ j \in {k \in JobIds : jobs'[k].status = "pending"}]_vars

\* A job that was claimed as inserted: its first claim found attempts 0.
C21_Witness ==
    \E j \in JobIds :
        /\ history[j] = <<"pending", "processing">>
        /\ jobs[j].attempts = 1
        /\ jobs[j].result = <<>>
        /\ jobs[j].errorMessage = <<>>

\* ---- C22 ----
\* C22: effect of one claim.  When a job is pending as the statement runs,
\* exactly one row changes: its status becomes processing, its attempts grow
\* by 1 and its other columns stay, and the call returns that row as it is
\* after the update.  When no job is pending the call returns none and no
\* row changes.
C22_ClaimEffect ==
    [][\A w \in Workers :
          ClaimReturns(w) =>
              LET changed == {j \in JobIds : jobs'[j] # jobs[j]}
                  ret == Returned(w)
              IN IF \E j \in JobIds : jobs[j].status = "pending"
                 THEN /\ changed = {ret.id}
                      /\ jobs[ret.id].status = "pending"
                      /\ jobs'[ret.id] =
                            [jobs[ret.id] EXCEPT !.status = "processing",
                                                 !.attempts = jobs[ret.id].attempts + 1]
                      /\ ret.attempts = jobs'[ret.id].attempts
                 ELSE ret = NoRow /\ changed = {}]_vars

\* A tick holds job 1 as returned by its second claim (the attempts the
\* claim found, plus one) while the other job is finished, and another call
\* has returned none.
C22_Witness ==
    /\ claimCount[1] = 2
    /\ BagIn([id |-> 1, attempts |-> jobs[1].attempts], ticks[workerId].resolved)
    /\ jobs[1].status = "processing"
    /\ jobs[2].status = "completed"
    /\ BagIn(NoRow, ticks[workerId].resolved)

\* ---- C23 ----
\* The error e with which an execution of job j fails in this step.
FailsWith(j, e) ==
    \E x \in execs :
        /\ x.id = j
        /\ \/ ExecFail(x) /\ e = FailureMessage(Respond(jobs[j].url))
           \/ ExecReport(x) /\ e = ParseHeaders(jobs[j].headers).message
           \/ ExecTransportError(x, e)
           \/ ExecCompleteWriteThrows(x) /\ e = WriteError

ExecutionErrors ==
    TransportErrors \cup {WriteError, FailureMessage(Respond("/fail")),
                          ParseHeaders(<<[name |-> "x-retries", json |-> "number"]>>).message}

\* C23: a pending job that has been claimed at least once has attempts below
\* maxAttempts and carries the error of its most recent failed execution: a
\* step leaves such a job pending only by writing the error of the execution
\* that fails in that step, or by leaving a pending job's message alone.
C23_RequeuedShape ==
    /\ [](\A j \in JobIds :
            (jobs[j].status = "pending" /\ claimCount[j] > 0) =>
                /\ jobs[j].attempts < maxAttempts
                /\ failCount[j] > 0
                /\ jobs[j].errorMessage \in ExecutionErrors)
    /\ [][\A j \in JobIds :
            (jobs'[j].status = "pending" /\ claimCount'[j] > 0) =>
                IF \E e \in ExecutionErrors : FailsWith(j, e)
                THEN \A e \in ExecutionErrors :
                        FailsWith(j, e) => jobs'[j].errorMessage = e
                ELSE /\ jobs[j].status = "pending"
                     /\ jobs'[j].errorMessage = jobs[j].errorMessage]_vars

\* A job whose target answers 500 is pending again after its first
\* execution, which ended in a network error.
C23_Witness ==
    \E j \in JobIds :
        /\ jobs[j].status = "pending"
        /\ claimCount[j] = 1
        /\ jobs[j].attempts = 2
        /\ jobs[j].url = "/fail"
        /\ jobs[j].errorMessage = <<"fetch failed">>

\* ---- C24 ----
\* The executions of process w that have been launched and have not
\* returned.
InFlightOf(w) == {x \in execs : x.worker = w}

\* C24: in-flight accounting.  A launch adds one to currentWorkers, the end of
\* an execution takes one off, on every exit path, and nothing else changes
\* it; so currentWorkers is never negative, equals the number of executions
\* launched and not finished, and is 0 when none is left.
C24_InFlightAccounting ==
    /\ [](\A w \in Workers :
            /\ currentWorkers[w] >= 0
            /\ currentWorkers[w] = Cardinality(InFlightOf(w)))
    /\ [][\A w \in Workers :
            currentWorkers'[w] - currentWorkers[w] =
                Cardinality(InFlightOf(w)') - Cardinality(InFlightOf(w))]_vars

\* ---- C25 ----
\* A step in which the continuation of one of w's ticks runs, and the row
\* (or none, or the rejection) that continuation had received.
Resumes(w) ==
    \E r \in BagToSet(ticks[w].resolved) :
        CopiesIn(r, ticks'[w].resolved) < CopiesIn(r, ticks[w].resolved)

Received(w) ==
    CHOOSE r \in BagToSet(ticks[w].resolved) :
        CopiesIn(r, ticks'[w].resolved) < CopiesIn(r, ticks[w].resolved)

\* C25: every tick terminates and leaves the tick-running flag false.  A tick
\* returns only from a continuation that received none or a rejection, or
\* that brought the in-flight count to maxConcurrent; a continuation that
\* received a job and leaves a free slot issues the next claim.  The launches
\* of the process are finitely many, so no tick loops for ever, and a set
\* flag is always cleared again.
C25_TickTerminates ==
    /\ [][\A w \in Workers :
            Resumes(w) =>
                LET returns == ticks'[w].claiming = ticks[w].claiming
                    gotJob == Received(w).id \in JobIds
                IN /\ returns => ~isTickRunning'[w]
                   /\ returns => (~gotJob \/ currentWorkers'[w] >= maxConcurrent)
                   /\ (gotJob /\ currentWorkers'[w] < maxConcurrent) =>
                          ticks'[w].claiming = ticks[w].claiming + 1
                   /\ ~returns => isTickRunning'[w] = isTickRunning[w]]_vars
    /\ isTickRunning[workerId] ~> ~isTickRunning[workerId]
    /\ <>[][currentWorkers'[workerId] <= currentWorkers[workerId]]_vars

\* A tick has just returned with a job as its last claim: its launch filled
\* the last slot.
C25_Witness ==
    /\ currentWorkers[workerId] = maxConcurrent
    /\ ~isTickRunning[workerId]
    /\ Suspended(workerId) = 0
    /\ poller[workerId]

\* ---- C26 ----
\* C26: legality of the failure writes.  When an execution writes status
\* pending, the attempts its claim returned is below maxAttempts; when it
\* writes status failed, the attempts its claim returned is at least
\* maxAttempts.
C26_FailureWritesLegal ==
    [][\A x \in execs :
        (/\ x.pc # "finally"
         /\ [x EXCEPT !.pc = "finally"] \in execs'
         /\ jobs'[x.id] # jobs[x.id]) =>
            /\ jobs'[x.id].status = "pending" => x.attempts < maxAttempts
            /\ jobs'[x.id].status = "failed" => x.attempts >= maxAttempts]_vars

\* Both failure writes have happened to one job: requeued by its first
\* execution, terminally failed by the second, which is in its finally block
\* with the attempts its claim returned.
C26_Witness ==
    \E x \in execs :
        /\ x.pc = "finally"
        /\ x.attempts >= maxAttempts
        /\ history[x.id] = <<"pending", "processing", "pending", "processing", "failed">>

\* ---- C27 ----
\* The executions of job j that this step starts, and those among them whose
\* request this step issues (executeJob runs up to `await fetch(...)` in the
\* step that calls it).
StartedIn(j) == {x \in execs' \ execs : x.id = j /\ x.pc # "finally"}

RequestedIn(j) == {x \in StartedIn(j) : x.pc = "fetch"}

\* No step sends a request for an execution that is already under way.
NoSecondRequest ==
    \A x \in execs : \A y \in execs' \ execs :
        (y.worker = x.worker /\ y.id = x.id /\ y.attempts = x.attempts) =>
            (y.pc = "finally" /\ x.pc # "finally")

\* C27 as stated: every executeJob invocation issues exactly one outbound
\* request, so each step issues as many requests for a job as it starts
\* executions of it.
C27_OneRequestPerExecution ==
    [][/\ NoSecondRequest
       /\ \A j \in JobIds :
            Cardinality(RequestedIn(j)) = Cardinality(StartedIn(j))]_vars

\* C27 amended: an executeJob invocation issues at most one outbound request
\* and never repeats it: exactly one when the stored headers parse as a map
\* of strings, none when they do not (the failure is then reported without
\* a request).
C27_AtMostOneRequest ==
    [][/\ NoSecondRequest
       /\ \A j \in JobIds :
            /\ Cardinality(StartedIn(j)) <= 1
            /\ \A x \in StartedIn(j) :
                 x \in RequestedIn(j) <=>
                     \A i \in DOMAIN jobs[j].headers : jobs[j].headers[i].json = "string"]_vars

\* A job with a header that is not a string has been executed twice and is
\* failed: no request was ever sent for it.
C27_Witness ==
    \E j \in JobIds :
        /\ jobs[j].headers # <<>>
        /\ jobs[j].status = "failed"
        /\ failCount[j] = 2
        /\ jobs[j].errorMessage = <<"invalid_type", "expected string">>

\* ---- C28 ----
\* C28: the poller never waits for an execution.  Whatever executions are in
\* flight, the claim a tick has issued can be answered and the continuation
\* of a tick that has received its answer can run; a continuation that
\* launches a job with a slot left issues the next claim in the same step,
\* with the execution it has just launched in flight; and no step of a tick
\* ends or advances an execution.
C28_PollerNeverWaits ==
    /\ [](\A w \in instances :
            /\ ticks[w].claiming > 0 => ENABLED TickClaim(w)
            /\ \A ret \in BagToSet(ticks[w].resolved) : ENABLED TickResume(w, ret))
    /\ [][\A w \in Workers :
            ticks'[w] # ticks[w] =>
                /\ execs \subseteq execs'
                /\ \A x \in execs' \ execs :
                     /\ x.pc # "finally"
                     /\ currentWorkers'[w] < maxConcurrent =>
                            ticks'[w].claiming = ticks[w].claiming + 1]_vars

\* The one tick of the process has launched both jobs, the second while the
\* first was in flight, and has returned: the flag is clear and no tick is
\* suspended while both requests are still outstanding.
C28_Witness ==
    /\ ~isTickRunning[workerId]
    /\ poller[workerId]
    /\ ticks[workerId] = NoTicks
    /\ \E x, y \in execs :
         /\ x.id = 1 /\ y.id = 2
         /\ x.worker = workerId /\ y.worker = workerId
         /\ x.pc = "fetch" /\ y.pc = "fetch"

\* ---- C29 ----
\* C29: in every state a job's result is non-null only if its status is
\* completed.
C29_ResultOnlyCompleted ==
    \A j \in JobIds : jobs[j].result # <<>> => jobs[j].status = "completed"

\* A job that failed once and was completed by its second execution carries
\* the response of that execution.
C29_Witness ==
    \E j \in JobIds :
        /\ jobs[j].status = "completed"
        /\ jobs[j].result = <<"{", "ok", ":", "true", "}">>
        /\ failCount[j] = 1

\* ---- C30 ----
\* C30: in every state a job's errorMessage is non-null only when its most
\* recent attempt failed: the job is failed, or it is pending after a claim
\* (requeued by the failure of its last attempt).  A job that has been
\* claimed again and is processing has an attempt under way that has not
\* failed, so it carries no errorMessage.
C30_MessageOnlyAfterFailure ==
    \A j \in JobIds :
        jobs[j].errorMessage # <<>> =>
            \/ jobs[j].status = "failed"
            \/ jobs[j].status = "pending" /\ claimCount[j] > 0

\* ---- C31 ----
\* The headers the job supplies, and the defaults the claim names.
SuppliedHeaders(j) ==
    {[name |-> jobs[j].headers[i].name, value |-> jobs[j].headers[i].value] :
        i \in DOMAIN jobs[j].headers}

DefaultContentType == [name |-> "content-type", value |-> "application/json"]

DefaultAccept == [name |-> "accept", value |-> "application/json"]

\* Names compared as HTTP compares them, without regard to letter case.
IsContentType(m) == m.name \in {"content-type", "Content-Type"}

IsAccept(m) == m.name \in {"accept", "Accept"}

\* C31: header defaulting.  The request of every execution carries the
\* headers the job supplies; without a body it carries nothing else; with a
\* body it carries content-type: application/json besides exactly when no
\* supplied name is content-type in any letter case, and accept:
\* application/json besides exactly when no supplied name is accept in any
\* letter case, so that a supplied accept stays the only accept header.
C31_HeaderDefaulting ==
    \A x \in execs :
        x.pc = "fetch" =>
            LET supplied == SuppliedHeaders(x.id)
                added == x.headers \ supplied
            IN /\ supplied \subseteq x.headers
               /\ jobs[x.id].body = <<>> => added = {}
               /\ jobs[x.id].body # <<>> =>
                    /\ added \subseteq {DefaultContentType, DefaultAccept}
                    /\ DefaultContentType \in added <=>
                           ~(\E m \in supplied : IsContentType(m))
                    /\ DefaultAccept \in added <=> ~(\E m \in supplied : IsAccept(m))

\* ---- C32 ----
\* The requests an execution of the process can have outstanding.
Outstanding ==
    {[worker |-> workerId, id |-> j, attempts |-> a, headers |-> {}, pc |-> "fetch"] :
        j \in JobIds, a \in 1..(2 * maxAttempts)}

\* C32: stopWorker clears the timer and the tick-running flag and touches
\* nothing else: no execution, no job, not the in-flight count.  Every
\* execution in flight while the worker is stopped still reaches its outcome,
\* which writes completed, pending or failed to its job, and then returns,
\* taking one off the in-flight count.
C32_StopCancelsNothing ==
    /\ [][\A w \in Workers :
            (poller[w] /\ ~poller'[w]) =>
                /\ ~isTickRunning'[w]
                /\ execs' = execs
                /\ jobs' = jobs
                /\ currentWorkers' = currentWorkers]_vars
    /\ [][\A x \in execs :
            /\ (x.pc # "finally" /\ x \notin execs') =>
                   /\ [x EXCEPT !.pc = "finally"] \in execs'
                   /\ jobs'[x.id] # jobs[x.id]
                   /\ jobs'[x.id].status \in {"completed", "pending", "failed"}
            /\ (x.pc = "finally" /\ x \notin execs') =>
                   currentWorkers'[x.worker] = currentWorkers[x.worker] - 1]_vars
    /\ \A x \in Outstanding :
          (x \in execs /\ ~poller[x.worker]) ~> (\A y \in execs : y.id # x.id \/ y.attempts # x.attempts)

\* The worker is stopped, no tick is left, and the request of an execution
\* is still outstanding.
C32_Witness ==
    /\ ~poller[workerId]
    /\ ticks[workerId] = NoTicks
    /\ \E x \in execs : x.pc = "fetch" /\ x.worker = workerId

\* ---- C33 ----
\* C33: never a success by mistake.  A step gives a job status completed only
\* as the outcome of an execution of that job whose request was sent and
\* answered 2xx; every other outcome of an execution, whatever the error, is
\* recorded on the job as a failure (status pending or failed with an
\* errorMessage), never lost.
C33_NoFalseSuccess ==
    [][/\ \A j \in JobIds :
            (jobs'[j].status = "completed" /\ jobs[j].status # "completed") =>
                \E x \in execs :
                    /\ x.id = j
                    /\ x.pc = "fetch"
                    /\ [x EXCEPT !.pc = "finally"] \in execs'
                    /\ jobs[j].url = "/success"
       /\ \A x \in execs :
            (/\ x.pc # "finally"
             /\ [x EXCEPT !.pc = "finally"] \in execs'
             /\ jobs'[x.id].status # "completed") =>
                /\ jobs'[x.id].status \in {"pending", "failed"}
                /\ jobs'[x.id].errorMessage # <<>>]_vars

\* ---- C34 ----
\* C34: at most one tick body is active at any time: in every state at most
\* one activation of runTick of a process has not returned, whatever the
\* sequence of startWorker, stopWorker and timer callbacks.
C34_OneTickBody ==
    \A w \in Workers : ticks[w].claiming + BagCardinality(ticks[w].resolved) <= 1

\* ---- C35 ----
\* C35: after stopWorker has returned and until startWorker is called again
\* (no timer is set before and after the step), no job is claimed: no pending
\* job becomes processing.
C35_NoClaimAfterStop ==
    [][(~poller[workerId] /\ ~poller'[workerId]) =>
          \A j \in JobIds :
              ~(jobs[j].status = "pending" /\ jobs'[j].status = "processing")]_vars

\* ---- C36 ----
\* C36: with one engine instance, in every state at most maxConcurrent jobs
\* have the stored status processing.
C36_ProcessingBounded ==
    Cardinality({j \in JobIds : jobs[j].status = "processing"}) <= maxConcurrent

\* ---- C37 ----
\* C37: progress.  While the worker stays started, every pending job is
\* eventually claimed and every job that is pending or processing eventually
\* is completed or failed.
C37_Progress ==
    \A j \in 1..Submissions :
        /\ (jobs[j].status = "pending" /\ poller[workerId])
               ~> (jobs[j].status # "pending" \/ ~poller[workerId])
        /\ (jobs[j].status \in {"pending", "processing"} /\ poller[workerId])
               ~> (jobs[j].status \in {"completed", "failed"} \/ ~poller[workerId])

\* Both jobs have reached their final status, one completed and one failed
\* after its retry, with the worker started throughout the last steps.
C37_Witness ==
    /\ poller[workerId]
    /\ jobs[1].status = "failed"
    /\ jobs[2].status = "completed"
    /\ claimCount[1] = 2
    /\ execs = {}

\* ---- C38 ----
\* The columns no engine write touches.
Identity(row) ==
    [priority |-> row.priority, url |-> row.url, headers |-> row.headers,
     body |-> row.body, createdAt |-> row.createdAt, userId |-> row.userId]

\* C38: a step that changes an existing job changes that job only and leaves
\* its priority, url, headers, body, createdAt and userId as they were; and no
\* job is claimed while a requeued job of the same priority created earlier is
\* pending.
C38_WriteFrame ==
    /\ [][\A j \in JobIds :
            (jobs[j].status # "absent" /\ jobs'[j] # jobs[j])
                => /\ Identity(jobs'[j]) = Identity(jobs[j])
                   /\ \A k \in JobIds \ {j} : jobs'[k] = jobs[k]]_vars
    /\ [][\A j \in JobIds, k \in JobIds :
            (/\ jobs[j].status = "pending" /\ jobs[j].attempts > 0
             /\ jobs[k].status = "pending"
             /\ jobs[k].priority = jobs[j].priority
             /\ jobs[k].createdAt > jobs[j].createdAt)
                => jobs'[k].status = "pending"]_vars

\* The requeued job 1 has been claimed a second time while job 2, of the same
\* priority and created later, is still pending.
C38_Witness ==
    /\ jobs[1].status = "processing"
    /\ claimCount[1] = 2
    /\ jobs[2].status = "pending"
    /\ jobs[2].priority = jobs[1].priority
    /\ jobs[2].createdAt > jobs[1].createdAt
    /\ jobs[1].createdAt = 1

\* ---- C39 ----
\* C39: an execution whose request was answered 2xx and whose completion
\* write rejected leaves its outcome step with the job written pending or
\* failed (pending only if the attempts its claim returned is below
\* maxAttempts, failed only if not), with an errorMessage and a null result;
\* and every execution that ends takes one off the in-flight counter.
C39_CompletionWriteFails ==
    /\ [][\A x \in execs :
            (/\ x.pc = "fetch"
             /\ jobs[x.id].url = "/success"
             /\ [x EXCEPT !.pc = "finally"] \in execs'
             /\ jobs'[x.id].status # "completed") =>
                /\ jobs'[x.id].status \in {"pending", "failed"}
                /\ jobs'[x.id].status = "pending" => x.attempts < maxAttempts
                /\ jobs'[x.id].status = "failed" => x.attempts >= maxAttempts
                /\ jobs'[x.id].errorMessage # <<>>
                /\ jobs'[x.id].result = <<>>]_vars
    /\ [][\A x \in execs :
            (x.pc = "finally" /\ x \notin execs') =>
                currentWorkers'[x.worker] =
                    (IF currentWorkers[x.worker] > 0
                     THEN currentWorkers[x.worker] - 1 ELSE 0)]_vars

\* ---- C40 ----
\* C40: no orphaned processing job.  When no tick is running (the flag is
\* clear and no tick body is suspended) and currentWorkers is 0, no job has
\* status processing; and every job with status processing is held by an
\* execution that has not finished or by the tick that has just claimed it.
C40_NoOrphan ==
    /\ (/\ \A w \in instances :
              /\ ~isTickRunning[w]
              /\ ticks[w].claiming + BagCardinality(ticks[w].resolved) = 0
              /\ currentWorkers[w] = 0)
            => \A j \in JobIds : jobs[j].status # "processing"
    /\ \A j \in JobIds :
          jobs[j].status = "processing" =>
              \/ \E x \in execs : x.id = j /\ x.pc # "finally"
              \/ \E w \in instances : \E ret \in BagToSet(ticks[w].resolved) :
                    ret \notin {NoRow, Rejected} /\ ret.id = j

====
